---- MODULE Spec2Model ----
(***************************************************************************)
(* Model of spdlog's wincolor_sink (include/spdlog/sinks/wincolor_sink-inl.h)*)
(* One sink object, the console mutex it shares, the output device behind   *)
(* its handle, and a fixed set of threads calling log and the setters.      *)
(***************************************************************************)
EXTENDS Integers, Sequences, FiniteSets, TLC

\* ------------------------------------------------------------------ bounds
\* largest formatted buffer the formatter produces
MaxLen == 3
\* capacity of the record's color_ranges_start / color_ranges_end arrays
\* (MAX_RANGES of log_msg, used at lines 61 and 63; scaled down here)
MAX_RANGES == 2
\* calls (log or setter) made in one run, over all threads
MaxCalls == 2

\* ------------------------------------------------- console attribute words
FOREGROUND_BLUE == 1
FOREGROUND_GREEN == 2
FOREGROUND_RED == 4
FOREGROUND_INTENSITY == 8
BACKGROUND_RED == 64
\* mask of set_foreground_color_: everything but the lowest 4 bits
KEEP_MASK == 65520
\* width of WORD / std::uint16_t
WORD_BITS == 16

RECURSIVE BitAndN(_, _, _)
BitAndN(a, b, n) ==
    IF n = 0 THEN 0
    ELSE (IF a % 2 = 1 /\ b % 2 = 1 THEN 1 ELSE 0) + 2 * BitAndN(a \div 2, b \div 2, n - 1)

RECURSIVE BitOrN(_, _, _)
BitOrN(a, b, n) ==
    IF n = 0 THEN 0
    ELSE (IF a % 2 = 1 \/ b % 2 = 1 THEN 1 ELSE 0) + 2 * BitOrN(a \div 2, b \div 2, n - 1)

BitAnd(a, b) == BitAndN(a, b, WORD_BITS)
BitOr(a, b) == BitOrN(a, b, WORD_BITS)

\* FOREGROUND_RED | FOREGROUND_GREEN | FOREGROUND_BLUE
WHITE == BitOr(FOREGROUND_RED, BitOr(FOREGROUND_GREEN, FOREGROUND_BLUE))

\* ------------------------------------------------------------- value sets
Threads == {"t1", "t2"}
NoThread == "none"

Levels == {"trace", "debug", "info", "warn", "err", "critical", "off"}
\* levels of the records the threads log, and levels set_color is called on
MsgLevels == {"info", "critical"}
SetColorLevels == {"info"}
\* color values passed to set_color
SetColorValues == {5, 44}

Handles == {"nullptr", "INVALID_HANDLE_VALUE", "handle"}
ColorModes == {"always", "automatic", "never"}
\* text attributes the console has before the sink touches it
AmbientAttrs == {7, 30}
Formatters == {"default", "pattern", "custom"}

\* colors_ as the constructor fills it
DefaultColors ==
    [l \in Levels |->
        CASE l = "trace" -> BitOr(FOREGROUND_RED, BitOr(FOREGROUND_GREEN, FOREGROUND_BLUE))
          [] l = "debug" -> BitOr(FOREGROUND_GREEN, FOREGROUND_BLUE)
          [] l = "info" -> FOREGROUND_GREEN
          [] l = "warn" -> BitOr(FOREGROUND_RED, BitOr(FOREGROUND_GREEN, FOREGROUND_INTENSITY))
          [] l = "err" -> BitOr(FOREGROUND_RED, FOREGROUND_INTENSITY)
          [] l = "critical" ->
                BitOr(BACKGROUND_RED, BitOr(FOREGROUND_RED, BitOr(FOREGROUND_GREEN,
                    BitOr(FOREGROUND_BLUE, FOREGROUND_INTENSITY))))
          [] OTHER -> 0]

ZeroRanges == [k \in 1..MAX_RANGES |-> 0]

VARIABLES
    \* the sink
    out_handle_, in_console_, should_do_colors_, colors_, formatter_,
    \* ConsoleMutex::mutex(): the thread holding it, or NoThread
    mutex_,
    \* the device behind out_handle_
    dev_console, dev_attr,
    \* each thread: position, the record it logs, the formatted buffer's size,
    \* the loop index i, orig_attribs, the number of its current call
    pc, msg, formatted, idx, orig_attribs, cid,
    \* calls started so far, and log calls among them
    calls, logs,
    \* history: the device calls of each thread's current log call, the text
    \* attributes when the call took the lock; the mode of the last call of
    \* set_color_mode_impl, where it was called from and what the device was
    \* then; the call owning the tail of the device's call sequence, the calls
    \* whose block of device calls has ended, and the number of blocks
    ops, entry, last_mode, last_site, last_console, dev_owner, dev_closed, dev_blocks,
    \* history: the range marks each thread's record holds that the sink has not
    \* cleared (those it carried into the call, then those the formatter of
    \* this call put in), and the text attributes of the device before any call
    marked, ambient

vars == <<out_handle_, in_console_, should_do_colors_, colors_, formatter_, mutex_,
          dev_console, dev_attr, pc, msg, formatted, idx, orig_attribs, cid, calls,
          logs, ops, entry, last_mode, last_site, last_console,
          dev_owner, dev_closed, dev_blocks, marked, ambient>>

sinkVars == <<out_handle_, in_console_, should_do_colors_, colors_, formatter_>>
histVars == <<last_mode, last_site, last_console, ambient>>
devHist == <<dev_owner, dev_closed, dev_blocks>>

\* ------------------------------------------------------------ the record
\* a log_msg with empty range bookkeeping
FreshMsg(lvl) ==
    [level |-> lvl,
     num_start_ranges |-> 0, color_ranges_start |-> ZeroRanges,
     num_end_ranges |-> 0, color_ranges_end |-> ZeroRanges]

\* range bookkeeping a reused record carries from an earlier call
StaleMsgs(lvl) ==
    {FreshMsg(lvl),
     [level |-> lvl,
      num_start_ranges |-> 1,
      color_ranges_start |-> [k \in 1..MAX_RANGES |-> IF k = 1 THEN 1 ELSE 0],
      num_end_ranges |-> 1,
      color_ranges_end |-> [k \in 1..MAX_RANGES |-> IF k = 1 THEN 2 ELSE 0]]}

\* log, lines 60-63: both counts zero, both arrays zeroed
ResetRanges_Keep(m) == m
ResetRanges(m) ==
    [m EXCEPT !.num_start_ranges = 0, !.color_ranges_start = ZeroRanges,
              !.num_end_ranges = 0, !.color_ranges_end = ZeroRanges]

\* the marks a record holds: the first num_start_ranges starts and the first
\* num_end_ranges ends of its arrays
MarksOf(m) ==
    [starts |-> SubSeq(m.color_ranges_start, 1, m.num_start_ranges),
     ends |-> SubSeq(m.color_ranges_end, 1, m.num_end_ranges)]

NoMarks == [starts |-> <<>>, ends |-> <<>>]

\* ---------------------------------------------------------- the formatter
\* offsets the formatter marks while the buffer grows: at most MAX_RANGES,
\* each within the buffer, never decreasing
MarkSeqs(size) ==
    UNION {{m \in [1..k -> 0..size] : \A j \in 1..(k - 1) : m[j] <= m[j + 1]} :
           k \in 0..MAX_RANGES}

\* what one format call can produce: the buffer's size, the offsets of the
\* color-start marks and of the color-end marks
FormatOutputs ==
    UNION {{[size |-> n, starts |-> a, ends |-> b] : a \in MarkSeqs(n), b \in MarkSeqs(n)} :
           n \in 0..MaxLen}

\* a mark is stored at the record's current count, while there is room
RECURSIVE AppendMarks(_, _, _)
AppendMarks(n, arr, marks) ==
    IF marks = <<>> THEN [n |-> n, arr |-> arr]
    ELSE IF n < MAX_RANGES
         THEN AppendMarks(n + 1, [arr EXCEPT ![n + 1] = Head(marks)], Tail(marks))
         ELSE [n |-> n, arr |-> arr]

\* formatter_->format(msg, formatted): the record after the call
Format(m, out) ==
    LET s == AppendMarks(m.num_start_ranges, m.color_ranges_start, out.starts)
        e == AppendMarks(m.num_end_ranges, m.color_ranges_end, out.ends)
    IN  [m EXCEPT !.num_start_ranges = s.n, !.color_ranges_start = s.arr,
                  !.num_end_ranges = e.n, !.color_ranges_end = e.arr]

\* -------------------------------------------------------------- the sink
\* log, line 54
HandleInvalid_NullOnly(h) == h = "nullptr"
HandleInvalid(h) == h = "nullptr" \/ h = "INVALID_HANDLE_VALUE"

\* ::GetConsoleMode(out_handle_, &console_mode) != 0
GetConsoleMode(h, console) == ~HandleInvalid(h) /\ console

\* set_color_mode_impl: the value should_do_colors_ gets
ResolveColorMode_AutoIsAlways(mode, probe) == mode # "never"
ResolveColorMode(mode, probe) ==
    IF mode = "automatic" THEN probe ELSE mode = "always"

\* set_foreground_color_, line 167
NewAttribs(attribs, wAttributes) == BitOr(attribs, BitAnd(wAttributes, KEEP_MASK))

\* log, line 71: the colorize branch is taken
ShouldColorize_AnyCounts(m) == should_do_colors_
ShouldColorize(m) ==
    should_do_colors_ /\ m.num_start_ranges = m.num_end_ranges

\* set_foreground_color_, lines 160-164 and 170: what it returns
CapturedAttribs(ok, wAttributes) == IF ok THEN wAttributes ELSE WHITE

\* set_foreground_color_, lines 160-168: after a failed capture it returns
\* without setting the color, and log goes on to print the range
AfterCapture_GiveUp(ok) == IF ok THEN "set" ELSE "unlock"
AfterCapture(ok) == IF ok THEN "set" ELSE "span"

\* log, lines 84 and 103: the attributes set after the colored range
RestoreValue_Default(orig) == WHITE
RestoreValue(orig) == orig

\* log, lines 87-94: where the uncolored text after range i (from 0) ends
GapEnd_NoTail(m, i, size) ==
    IF i + 1 < m.num_start_ranges THEN m.color_ranges_start[i + 2]
    ELSE m.color_ranges_end[i + 1]
GapEnd(m, i, size) ==
    IF i + 1 < m.num_start_ranges THEN m.color_ranges_start[i + 2] ELSE size

\* std::lock_guard<mutex_t> lock(mutex_) can be taken
CanLock_NullMutex(t) == TRUE
CanLock(t) == mutex_ = NoThread

\* a device call made by thread t's current log call
Op(name, a, b) == [op |-> name, a |-> a, b |-> b]

DevCall(t, o) ==
    /\ ops' = [ops EXCEPT ![t] = Append(@, o)]
    /\ IF dev_owner = cid[t]
       THEN UNCHANGED devHist
       ELSE /\ dev_owner' = cid[t]
            /\ dev_closed' = IF dev_owner = 0 THEN dev_closed ELSE dev_closed \cup {dev_owner}
            /\ dev_blocks' = dev_blocks + 1

\* ::SetConsoleTextAttribute(out_handle_, a): takes effect on a console only
SetConsoleTextAttribute(a) ==
    dev_attr' = IF dev_console THEN a ELSE dev_attr

\* print_range_, lines 175-183
PrintRange_Unguarded(t, start, end) == DevCall(t, Op("WriteConsoleA", start, end))
PrintRange(t, start, end) ==
    IF end > start
    THEN DevCall(t, Op("WriteConsoleA", start, end))
    ELSE UNCHANGED <<ops, devHist>>

\* The sink after its constructor, on any handle, device and color mode.
\* in_console_ is assigned nowhere: not by the constructor, and
\* set_color_mode_impl keeps the result of its probe in a local in_console.
\* log reads it at line 66, so its value is indeterminate: either boolean.
Init ==
    /\ out_handle_ \in Handles
    /\ in_console_ \in BOOLEAN
    /\ dev_console \in (IF HandleInvalid(out_handle_) THEN {FALSE} ELSE BOOLEAN)
    /\ dev_attr \in AmbientAttrs
    /\ last_mode \in ColorModes
    /\ last_site = "constructor"
    /\ last_console = dev_console
    /\ should_do_colors_ =
          ResolveColorMode(last_mode, GetConsoleMode(out_handle_, dev_console))
    /\ colors_ = DefaultColors
    /\ formatter_ = "default"
    /\ mutex_ = NoThread
    /\ pc = [t \in Threads |-> "idle"]
    /\ msg = [t \in Threads |-> FreshMsg("info")]
    /\ formatted = [t \in Threads |-> 0]
    /\ idx = [t \in Threads |-> 0]
    /\ orig_attribs = [t \in Threads |-> 0]
    /\ cid = [t \in Threads |-> 0]
    /\ calls = 0
    /\ logs = 0
    /\ ops = [t \in Threads |-> <<>>]
    /\ entry = [t \in Threads |-> 0]
    /\ dev_owner = 0
    /\ dev_closed = {}
    /\ dev_blocks = 0
    /\ marked = [t \in Threads |-> NoMarks]
    /\ ambient = dev_attr

threadVars == <<pc, msg, formatted, idx, orig_attribs, cid, calls, logs, ops, entry,
                marked>>
devVars == <<dev_console, dev_attr>>

Goto(t, l) == pc' = [pc EXCEPT ![t] = l]

\* the sink exists: no thread has entered its destructor
Alive == \A u \in Threads : pc[u] \notin {"dtor", "destroyed"}

\* ------------------------------------------------------------------- log
\* a thread calls log(msg) with a record of some level, fresh or reused
LogCall(t, limit) ==
    /\ pc[t] = "idle"
    /\ Alive
    /\ calls < limit
    /\ calls' = calls + 1
    /\ logs' = logs + 1
    /\ cid' = [cid EXCEPT ![t] = calls + 1]
    /\ \E lvl \in MsgLevels : \E m \in StaleMsgs(lvl) :
          /\ msg' = [msg EXCEPT ![t] = m]
          /\ marked' = [marked EXCEPT ![t] = MarksOf(m)]
    /\ ops' = [ops EXCEPT ![t] = <<>>]
    /\ entry' = [entry EXCEPT ![t] = dev_attr]
    /\ Goto(t, "log_entry")
    /\ UNCHANGED <<sinkVars, mutex_, devVars, formatted, idx, orig_attribs, histVars, devHist>>

\* lines 54-57
LogHandleCheck(t) ==
    /\ pc[t] = "log_entry"
    /\ Goto(t, IF HandleInvalid(out_handle_) THEN "log_done" ELSE "log_lock")
    /\ UNCHANGED <<sinkVars, mutex_, devVars, msg, formatted, idx, orig_attribs, cid,
                   calls, logs, ops, entry, marked, histVars, devHist>>

\* lines 59-63
LogLock(t) ==
    /\ pc[t] = "log_lock"
    /\ CanLock(t)
    /\ mutex_' = t
    /\ msg' = [msg EXCEPT ![t] = ResetRanges(@)]
    /\ entry' = [entry EXCEPT ![t] = dev_attr]
    /\ Goto(t, "log_format")
    /\ UNCHANGED <<sinkVars, devVars, formatted, idx, orig_attribs, cid, calls, logs, ops,
                   marked, histVars, devHist>>

\* lines 64-65
LogFormat(t, outs) ==
    /\ pc[t] = "log_format"
    /\ \E out \in outs :
          /\ msg' = [msg EXCEPT ![t] = Format(@, out)]
          /\ formatted' = [formatted EXCEPT ![t] = out.size]
          /\ marked' = [marked EXCEPT ![t] = [starts |-> out.starts, ends |-> out.ends]]
    /\ Goto(t, "log_in_console")
    /\ UNCHANGED <<sinkVars, mutex_, devVars, idx, orig_attribs, cid, calls, logs, ops, entry,
                   histVars, devHist>>

\* line 66
LogCheckConsole(t) ==
    /\ pc[t] = "log_in_console"
    /\ Goto(t, IF ~in_console_ THEN "plain" ELSE "log_colors")
    /\ UNCHANGED <<sinkVars, mutex_, devVars, msg, formatted, idx, orig_attribs, cid,
                   calls, logs, ops, entry, marked, histVars, devHist>>

\* lines 71, 73
LogCheckColors(t) ==
    /\ pc[t] = "log_colors"
    /\ Goto(t, IF ShouldColorize(msg[t])
               THEN (IF msg[t].num_start_ranges > 0 THEN "prefix" ELSE "get")
               ELSE "plain")
    /\ UNCHANGED <<sinkVars, mutex_, devVars, msg, formatted, idx, orig_attribs, cid,
                   calls, logs, ops, entry, marked, histVars, devHist>>

\* write_to_file_, lines 186-192 (called at lines 68 and 108); the returns of
\* lines 69 and 110 that follow it leave the scope of the lock_guard
WriteToFile_ReturnsLocked(t) ==
    /\ pc[t] = "plain"
    /\ DevCall(t, Op("WriteFile", 0, formatted[t]))
    /\ Goto(t, "log_done")
    /\ UNCHANGED <<sinkVars, mutex_, devVars, msg, formatted, idx, orig_attribs, cid,
                   calls, logs, entry, marked, histVars>>
WriteToFile(t) ==
    /\ pc[t] = "plain"
    /\ DevCall(t, Op("WriteFile", 0, formatted[t]))
    /\ Goto(t, "unlock")
    /\ UNCHANGED <<sinkVars, mutex_, devVars, msg, formatted, idx, orig_attribs, cid,
                   calls, logs, entry, marked, histVars>>

\* line 76, and the loop's i = 0
LogPrefix(t) ==
    /\ pc[t] = "prefix"
    /\ PrintRange(t, 0, msg[t].color_ranges_start[1])
    /\ idx' = [idx EXCEPT ![t] = 0]
    /\ Goto(t, "get")
    /\ UNCHANGED <<sinkVars, mutex_, devVars, msg, formatted, orig_attribs, cid,
                   calls, logs, entry, marked, histVars>>

\* set_foreground_color_, lines 159-164: the capture, which can fail
CaptureAttribs(t) ==
    /\ pc[t] = "get"
    /\ \E ok \in (IF dev_console THEN BOOLEAN ELSE {FALSE}) :
          /\ DevCall(t, Op("GetConsoleScreenBufferInfo", IF ok THEN 1 ELSE 0, dev_attr))
          /\ orig_attribs' = [orig_attribs EXCEPT ![t] = CapturedAttribs(ok, dev_attr)]
          /\ Goto(t, AfterCapture(ok))
    /\ UNCHANGED <<sinkVars, mutex_, devVars, msg, formatted, idx, cid, calls, logs, entry,
                   marked, histVars>>

\* set_foreground_color_, lines 166-170, with colors_[msg.level] of lines 81, 100
ApplyColor(t) ==
    /\ pc[t] = "set"
    /\ LET new_attribs == NewAttribs(colors_[msg[t].level], orig_attribs[t])
       IN  /\ DevCall(t, Op("SetConsoleTextAttribute", new_attribs, 1))
           /\ SetConsoleTextAttribute(new_attribs)
    /\ Goto(t, "span")
    /\ UNCHANGED <<sinkVars, mutex_, dev_console, msg, formatted, idx, orig_attribs, cid,
                   calls, logs, entry, marked, histVars>>

\* lines 82 and 101
LogSpan(t) ==
    /\ pc[t] = "span"
    /\ IF msg[t].num_start_ranges > 0
       THEN PrintRange(t, msg[t].color_ranges_start[idx[t] + 1],
                          msg[t].color_ranges_end[idx[t] + 1])
       ELSE PrintRange(t, 0, formatted[t])
    /\ Goto(t, "restore")
    /\ UNCHANGED <<sinkVars, mutex_, devVars, msg, formatted, idx, orig_attribs, cid,
                   calls, logs, entry, marked, histVars>>

\* lines 84 and 103
RestoreAttribs(t) ==
    /\ pc[t] = "restore"
    /\ DevCall(t, Op("SetConsoleTextAttribute", RestoreValue(orig_attribs[t]), 0))
    /\ SetConsoleTextAttribute(RestoreValue(orig_attribs[t]))
    /\ Goto(t, IF msg[t].num_start_ranges > 0 THEN "gap" ELSE "unlock")
    /\ UNCHANGED <<sinkVars, mutex_, dev_console, msg, formatted, idx, orig_attribs, cid,
                   calls, logs, entry, marked, histVars>>

\* lines 87-94, and the loop's i++ and test
LogGap(t) ==
    /\ pc[t] = "gap"
    /\ PrintRange(t, msg[t].color_ranges_end[idx[t] + 1],
                      GapEnd(msg[t], idx[t], formatted[t]))
    /\ idx' = [idx EXCEPT ![t] = @ + 1]
    /\ Goto(t, IF idx[t] + 1 < msg[t].num_start_ranges THEN "get" ELSE "unlock")
    /\ UNCHANGED <<sinkVars, mutex_, devVars, msg, formatted, orig_attribs, cid,
                   calls, logs, entry, marked, histVars>>

\* line 110 (and the returns of lines 69): the lock_guard releases
LogUnlock(t) ==
    /\ pc[t] = "unlock"
    /\ mutex_' = NoThread
    /\ Goto(t, "log_done")
    /\ UNCHANGED <<sinkVars, devVars, msg, formatted, idx, orig_attribs, cid, calls, logs,
                   ops, entry, marked, histVars, devHist>>

\* log has returned; the caller goes on
LogReturn(t) ==
    /\ pc[t] = "log_done"
    /\ Goto(t, "idle")
    /\ msg' = [msg EXCEPT ![t] = FreshMsg("info")]
    /\ formatted' = [formatted EXCEPT ![t] = 0]
    /\ idx' = [idx EXCEPT ![t] = 0]
    /\ orig_attribs' = [orig_attribs EXCEPT ![t] = 0]
    /\ ops' = [ops EXCEPT ![t] = <<>>]
    /\ entry' = [entry EXCEPT ![t] = 0]
    /\ marked' = [marked EXCEPT ![t] = NoMarks]
    /\ UNCHANGED <<sinkVars, mutex_, devVars, cid, calls, logs, histVars, devHist>>

\* --------------------------------------------------------------- setters
\* a thread calls one of the setters, whose first statement takes the lock
SetterCall(t, limit) ==
    /\ pc[t] = "idle"
    /\ Alive
    /\ calls < limit
    /\ calls' = calls + 1
    /\ cid' = [cid EXCEPT ![t] = calls + 1]
    /\ Goto(t, "setter_lock")
    /\ UNCHANGED <<sinkVars, mutex_, devVars, msg, formatted, idx, orig_attribs, logs, ops,
                   entry, marked, histVars, devHist>>

\* std::lock_guard<mutex_t> lock(mutex_) of a setter (lines 47, 121, 128, 135);
\* which setter was called shows once the lock is taken
SetterLock_Unguarded(t, setter) ==
    /\ pc[t] = "setter_lock"
    /\ mutex_' = t
    /\ Goto(t, setter)
    /\ UNCHANGED <<sinkVars, devVars, msg, formatted, idx, orig_attribs, cid, calls, logs,
                   ops, entry, marked, histVars, devHist>>
SetterLock(t, setter) ==
    /\ pc[t] = "setter_lock"
    /\ CanLock(t)
    /\ mutex_' = t
    /\ Goto(t, setter)
    /\ UNCHANGED <<sinkVars, devVars, msg, formatted, idx, orig_attribs, cid, calls, logs,
                   ops, entry, marked, histVars, devHist>>

SetterReturn(t) ==
    /\ mutex_' = NoThread
    /\ Goto(t, "idle")
    /\ UNCHANGED <<devVars, msg, formatted, idx, orig_attribs, cid, calls, logs, ops, entry,
                   marked, devHist>>

\* set_color, lines 45-49
SetColor(t) ==
    /\ pc[t] = "set_color"
    /\ \E level \in SetColorLevels, color \in SetColorValues :
          colors_' = [colors_ EXCEPT ![level] = color]
    /\ SetterReturn(t)
    /\ UNCHANGED <<out_handle_, in_console_, should_do_colors_, formatter_, histVars>>

\* set_pattern, lines 119-123
SetPattern(t) ==
    /\ pc[t] = "set_pattern"
    /\ formatter_' = "pattern"
    /\ SetterReturn(t)
    /\ UNCHANGED <<out_handle_, in_console_, should_do_colors_, colors_, histVars>>

\* set_formatter, lines 126-130
SetFormatter(t) ==
    /\ pc[t] = "set_formatter"
    /\ formatter_' = "custom"
    /\ SetterReturn(t)
    /\ UNCHANGED <<out_handle_, in_console_, should_do_colors_, colors_, histVars>>

\* set_color_mode, lines 133-137, with set_color_mode_impl, lines 140-153
SetColorMode(t) ==
    /\ pc[t] = "set_color_mode"
    /\ \E mode \in ColorModes :
          /\ should_do_colors_' =
                ResolveColorMode(mode, GetConsoleMode(out_handle_, dev_console))
          /\ last_mode' = mode
    /\ last_site' = "set_color_mode"
    /\ last_console' = dev_console
    /\ SetterReturn(t)
    /\ UNCHANGED <<out_handle_, in_console_, colors_, formatter_, ambient>>

\* ------------------------------------------------- flush and destructor
\* a thread calls flush()
FlushCall(t) ==
    /\ pc[t] = "idle"
    /\ Alive
    /\ Goto(t, "flush")
    /\ UNCHANGED <<sinkVars, mutex_, devVars, msg, formatted, idx, orig_attribs, cid, calls,
                   logs, ops, entry, marked, histVars, devHist>>

\* flush, lines 113-116: the body is empty. It is run by a call of flush
\* (from "flush" back to "idle") and by the destructor (from "dtor")
Flush_Writes(t, from, to) ==
    /\ pc[t] = from
    /\ Goto(t, to)
    /\ DevCall(t, Op("WriteFile", 0, 0))
    /\ UNCHANGED <<sinkVars, mutex_, devVars, msg, formatted, idx, orig_attribs, cid, calls,
                   logs, entry, marked, histVars>>
Flush(t, from, to) ==
    /\ pc[t] = from
    /\ Goto(t, to)
    /\ UNCHANGED <<sinkVars, mutex_, devVars, msg, formatted, idx, orig_attribs, cid, calls,
                   logs, ops, entry, marked, histVars, devHist>>

\* ~wincolor_sink, lines 38-41, is entered when no call is in progress
DtorCall(t) ==
    /\ Alive
    /\ \A u \in Threads : pc[u] = "idle"
    /\ Goto(t, "dtor")
    /\ UNCHANGED <<sinkVars, mutex_, devVars, msg, formatted, idx, orig_attribs, cid, calls,
                   logs, ops, entry, marked, histVars, devHist>>

\* ---------------------------------------------------------------- device
\* the device behind the handle changes character (a console is attached or
\* freed, the output is redirected) while no call is using it
DeviceChange ==
    /\ ~HandleInvalid(out_handle_)
    /\ mutex_ = NoThread
    /\ \A t \in Threads : pc[t] = "idle"
    /\ dev_console' = ~dev_console
    /\ UNCHANGED <<sinkVars, mutex_, dev_attr, threadVars, histVars, devHist>>

\* --------------------------------------------------------- specifications
\* the steps of a log call
LogStep(t, outs, limit) ==
    \/ LogCall(t, limit)
    \/ LogHandleCheck(t)
    \/ LogLock(t)
    \/ LogFormat(t, outs)
    \/ LogCheckConsole(t)
    \/ LogCheckColors(t)
    \/ WriteToFile(t)
    \/ LogPrefix(t)
    \/ CaptureAttribs(t)
    \/ ApplyColor(t)
    \/ LogSpan(t)
    \/ RestoreAttribs(t)
    \/ LogGap(t)
    \/ LogUnlock(t)
    \/ LogReturn(t)

\* the steps of the setters
SetterStep(t, limit) ==
    \/ SetterCall(t, limit)
    \/ SetterLock(t, "set_color")
    \/ SetterLock(t, "set_pattern")
    \/ SetterLock(t, "set_formatter")
    \/ SetterLock(t, "set_color_mode")
    \/ SetColor(t)
    \/ SetPattern(t)
    \/ SetFormatter(t)
    \/ SetColorMode(t)

\* formatter outputs of the concurrent runs: a two-byte buffer with no mark,
\* with the range [1, 2), or with one of its two marks alone
ConcOutputs ==
    {o \in FormatOutputs :
        o.size = 2 /\ o.starts \in {<<>>, <<1>>} /\ o.ends \in {<<>>, <<2>>}}

\* all threads, calling log and the setters in any order, MaxCalls calls in all
Next ==
    \/ \E t \in Threads : LogStep(t, ConcOutputs, MaxCalls)
    \/ \E t \in Threads : SetterStep(t, MaxCalls)
    \/ DeviceChange

Spec == Init /\ [][Next]_vars

\* one log call on a sink as constructed, over every output of the formatter
NextWalk == LogStep("t1", FormatOutputs, 1)

SpecWalk == Init /\ [][NextWalk]_vars

\* the steps of flush and of the destructor
LifeStep(t) ==
    \/ FlushCall(t)
    \/ Flush(t, "flush", "idle")
    \/ DtorCall(t)
    \/ Flush(t, "dtor", "destroyed")

\* the whole life of a sink: one thread logs and sets, both flush at any
\* moment, and one of them destroys the sink in the end
NextLife ==
    \/ LogStep("t1", ConcOutputs, MaxCalls)
    \/ SetterStep("t1", MaxCalls)
    \/ \E t \in Threads : LifeStep(t)

SpecLife == Init /\ [][NextLife]_vars

\* a call that has started goes on: the thread is scheduled, its device calls
\* return, and the mutex is granted to a thread that waits for it while it
\* stays free
Proceed(t) ==
    \/ LogHandleCheck(t)
    \/ LogLock(t)
    \/ LogFormat(t, ConcOutputs)
    \/ LogCheckConsole(t)
    \/ LogCheckColors(t)
    \/ WriteToFile(t)
    \/ LogPrefix(t)
    \/ CaptureAttribs(t)
    \/ ApplyColor(t)
    \/ LogSpan(t)
    \/ RestoreAttribs(t)
    \/ LogGap(t)
    \/ LogUnlock(t)
    \/ LogReturn(t)
    \/ \E setter \in {"set_color", "set_pattern", "set_formatter", "set_color_mode"} :
          SetterLock(t, setter)
    \/ SetColor(t)
    \/ SetPattern(t)
    \/ SetFormatter(t)
    \/ SetColorMode(t)

\* formatter outputs of the runs against the setters: a two-byte buffer with no
\* mark, or with the two ranges [0, 1) and [1, 2)
SetterOutputs ==
    {o \in FormatOutputs :
        /\ o.size = 2
        /\ \/ o.starts = <<>> /\ o.ends = <<>>
           \/ o.starts = <<0, 1>> /\ o.ends = <<1, 2>>}

\* one thread logs while the other calls the setters, MaxCalls calls in all
NextSetters ==
    \/ LogStep("t1", SetterOutputs, MaxCalls)
    \/ SetterStep("t2", MaxCalls)

SpecSetters == Init /\ [][NextSetters]_vars

\* as many calls as there are threads, so that all of them can be in a call
\* at once
FairCalls == Cardinality(Threads)

NextFair ==
    \/ \E t \in Threads : LogStep(t, ConcOutputs, FairCalls)
    \/ \E t \in Threads : SetterStep(t, FairCalls)
    \/ DeviceChange

\* the concurrent runs under fair scheduling
SpecFair == Init /\ [][NextFair]_vars /\ \A t \in Threads : WF_vars(Proceed(t))

\* ============================================================ properties
\* ------------------------------------------------- reading a call's history
ValidHandle == out_handle_ = "handle"
Returned(t) == pc[t] = "log_done"
\* log is at its return, the lock_guard not yet released
Leaving(t) == pc[t] = "unlock"

IsCapture(o) == o.op = "GetConsoleScreenBufferInfo"
IsApply(o) == o.op = "SetConsoleTextAttribute" /\ o.b = 1
IsRestore(o) == o.op = "SetConsoleTextAttribute" /\ o.b = 0
IsConsoleWrite(o) == o.op = "WriteConsoleA"
IsFileWrite(o) == o.op = "WriteFile"
IsWrite(o) == IsConsoleWrite(o) \/ IsFileWrite(o)
IsAttrCall(o) == IsCapture(o) \/ IsApply(o) \/ IsRestore(o)

\* the buffer's bytes, each named by its place
Buffer(size) == [k \in 1..size |-> k]

\* the bytes [a, b) of the buffer
Bytes(a, b) == [k \in 1..(b - a) |-> a + k]

\* the bytes a sequence of device calls writes, in order
RECURSIVE Written(_)
Written(os) ==
    IF os = <<>> THEN <<>>
    ELSE (IF IsWrite(Head(os)) THEN Bytes(Head(os).a, Head(os).b) ELSE <<>>)
         \o Written(Tail(os))

Count(os, P(_)) == Len(SelectSeq(os, P))

\* the one plain write of the whole buffer
PlainWrite(t) == <<Op("WriteFile", 0, formatted[t])>>

\* the place of the last capture before place j of a call's history, or 0
LastCapture(os, j) ==
    LET before == {i \in 1..(j - 1) : IsCapture(os[i])}
    IN  IF before = {} THEN 0 ELSE CHOOSE i \in before : \A h \in before : h <= i

\* equal counts, every range within the buffer, in order and not overlapping
WellFormed(m, size) ==
    /\ m.num_start_ranges = m.num_end_ranges
    /\ \A k \in 1..m.num_start_ranges :
          /\ m.color_ranges_start[k] <= m.color_ranges_end[k]
          /\ m.color_ranges_end[k] <= size
          /\ k < m.num_start_ranges => m.color_ranges_end[k] <= m.color_ranges_start[k + 1]

\* the call went through the colorize branch of log (lines 72-105)
Colorized(t) == ops[t] # <<>> /\ \E j \in 1..Len(ops[t]) : IsCapture(ops[t][j])

\* ------------------------------------------------------------------- C1
\* C1 as stated: when a log call on a valid handle returns, the device's text
\* attributes are those it had on entry, and every restore on a console sets
\* exactly the attributes the console had at the capture before it.
C1_RestoresCapturedAlways ==
    \A t \in Threads :
        (Leaving(t) /\ ValidHandle) =>
            /\ dev_attr = entry[t]
            /\ dev_console =>
                  \A j \in 1..Len(ops[t]) :
                      IsRestore(ops[t][j]) =>
                          /\ LastCapture(ops[t], j) # 0
                          /\ ops[t][j].a = ops[t][LastCapture(ops[t], j)].b

\* C1 amended: every restore of a log call on a valid handle sets the
\* attributes captured before its span when that capture succeeded, and the
\* hardcoded white when it failed; when every capture of the call succeeded,
\* the device's text attributes on return are those it had on entry.
C1_RestoresCapturedOrWhite ==
    \A t \in Threads :
        ValidHandle =>
            /\ \A j \in 1..Len(ops[t]) :
                  IsRestore(ops[t][j]) =>
                      LET c == LastCapture(ops[t], j)
                      IN  /\ c # 0
                          /\ ops[t][j].a = IF ops[t][c].a = 1 THEN ops[t][c].b ELSE 7
            /\ (Leaving(t) /\ \A j \in 1..Len(ops[t]) :
                                   IsCapture(ops[t][j]) => ops[t][j].a = 1)
                  => dev_attr = entry[t]

\* a call on a console whose attributes are not white colored two spans,
\* captured both times, and is at its return
C1_Witness ==
    \E t \in Threads :
        /\ Leaving(t) /\ ValidHandle /\ dev_console
        /\ entry[t] = 30 /\ dev_attr = 30
        /\ Count(ops[t], IsApply) = 2
        /\ Count(ops[t], IsRestore) = 2

\* ------------------------------------------------------------------- C2
\* a call's history as the walk reads: "apply" for a capture (with the
\* attribute set that follows a successful one), "restore", and each write
RECURSIVE Shape(_)
Shape(os) ==
    IF os = <<>> THEN <<>>
    ELSE LET o == Head(os)
         IN  (CASE IsCapture(o) -> <<"apply">>
                [] IsApply(o) -> <<>>
                [] IsRestore(o) -> <<"restore">>
                [] IsConsoleWrite(o) -> <<<<o.a, o.b>>>>
                [] OTHER -> <<"file">>)
             \o Shape(Tail(os))

\* a write of [a, b), which is not made when the range is empty
ShapeWrite(a, b) == IF b > a THEN <<<<a, b>>>> ELSE <<>>

\* range i (from 1) of the walk: apply, the range, restore, the text up to the
\* next range or, after the last range, to the end of the buffer
RECURSIVE WalkFrom(_, _, _)
WalkFrom(m, size, i) ==
    IF i > m.num_start_ranges THEN <<>>
    ELSE <<"apply">>
         \o ShapeWrite(m.color_ranges_start[i], m.color_ranges_end[i])
         \o <<"restore">>
         \o ShapeWrite(m.color_ranges_end[i],
                       IF i < m.num_start_ranges THEN m.color_ranges_start[i + 1] ELSE size)
         \o WalkFrom(m, size, i + 1)

WalkShape(m, size) ==
    ShapeWrite(0, m.color_ranges_start[1]) \o WalkFrom(m, size, 1)

\* C2 as stated: a log call on a console device, with colorization enabled and
\* k >= 1 ranges of equal counts, makes its device calls in the order prefix,
\* then per range apply, range, restore, gap (the tail after the last range):
\* k apply/restore pairs, every other write between a restore and the next apply.
C2_WalkOrderOnConsole ==
    \A t \in Threads :
        (/\ Leaving(t) /\ ValidHandle
         /\ dev_console /\ should_do_colors_
         /\ msg[t].num_start_ranges = msg[t].num_end_ranges
         /\ msg[t].num_start_ranges >= 1)
        => Shape(ops[t]) = WalkShape(msg[t], formatted[t])

\* the same order, for the calls that pass the in_console_ test of line 66
WalkOrderWhenFlagSet ==
    \A t \in Threads :
        (/\ Leaving(t) /\ ValidHandle
         /\ in_console_ /\ should_do_colors_
         /\ msg[t].num_start_ranges = msg[t].num_end_ranges
         /\ msg[t].num_start_ranges >= 1)
        => Shape(ops[t]) = WalkShape(msg[t], formatted[t])

\* ------------------------------------------------------------------- C3
\* C3: a log call that took the colorize branch, on a record whose ranges have
\* equal counts, lie within the buffer, and are in order without overlap,
\* wrote exactly the formatted buffer: every byte once, in increasing order.
C3_PayloadUnchanged ==
    \A t \in Threads :
        (Returned(t) /\ Colorized(t) /\ WellFormed(msg[t], formatted[t]))
        => Written(ops[t]) = Buffer(formatted[t])

\* two colored ranges with text between them: three console writes
C3_Witness ==
    \E t \in Threads :
        /\ Returned(t) /\ Colorized(t) /\ WellFormed(msg[t], formatted[t])
        /\ msg[t].num_start_ranges = 2
        /\ Count(ops[t], IsConsoleWrite) = 3
        /\ formatted[t] = 3

\* ------------------------------------------------------------------- C4
\* C4 as stated: on a device that is not an interactive console, whatever the
\* color mode and the ranges, a log call makes one plain write of the whole
\* buffer and no attribute call.
C4_PlainOffConsole ==
    \A t \in Threads :
        (Returned(t) /\ ValidHandle /\ ~dev_console) => ops[t] = PlainWrite(t)

\* ------------------------------------------------------------------- C5
\* C5: a log call whose record the formatter left with start_count different
\* from end_count makes one plain write of the whole buffer and no attribute
\* call, whatever should_do_colors_ is.
C5_PlainOnUnequalCounts ==
    \A t \in Threads :
        (/\ Returned(t) /\ ValidHandle
         /\ msg[t].num_start_ranges # msg[t].num_end_ranges)
        => ops[t] = PlainWrite(t)

\* unequal counts on a sink that would otherwise colorize
C5_Witness ==
    \E t \in Threads :
        /\ Returned(t) /\ ValidHandle /\ in_console_ /\ should_do_colors_
        /\ msg[t].num_start_ranges = 2 /\ msg[t].num_end_ranges = 1
        /\ ops[t] = PlainWrite(t)

\* ------------------------------------------------------------------- C6
\* C6: on a null or invalid handle, log returns at once: the step that leaves
\* its entry takes the call straight to its return, with the record, the
\* buffer, the mutex, the device and the device's call sequence untouched; a
\* returned call has made no device call and does not hold the mutex.
C6_NoOpOnInvalidHandle ==
    /\ [](\A t \in Threads :
            (Returned(t) /\ out_handle_ \in {"nullptr", "INVALID_HANDLE_VALUE"})
            => (ops[t] = <<>> /\ mutex_ # t))
    /\ [][\A t \in Threads :
            (/\ pc[t] = "log_entry" /\ pc'[t] # "log_entry"
             /\ out_handle_ \in {"nullptr", "INVALID_HANDLE_VALUE"})
            => /\ pc'[t] = "log_done"
               /\ msg'[t] = msg[t]
               /\ formatted' = formatted
               /\ ops' = ops
               /\ mutex_' = mutex_
               /\ dev_attr' = dev_attr
               /\ dev_blocks' = dev_blocks]_vars

\* log has returned on an invalid handle, its record still carrying the
\* ranges of an earlier call, while another thread holds the mutex
C6_Witness ==
    \E t \in Threads :
        /\ Returned(t)
        /\ out_handle_ = "INVALID_HANDLE_VALUE"
        /\ msg[t].num_start_ranges = 1
        /\ mutex_ \in Threads \ {t}

\* ------------------------------------------------------------------- C7
\* C7: the device calls of one log call form one contiguous block of the
\* device's call sequence: a call whose block another call's device call has
\* ended makes no further device call; a call in progress that has made a
\* device call holds the mutex and owns the tail of the sequence; and when
\* every call has returned, the blocks are as many as the log calls made
\* on a valid handle (none on an invalid one).
C7_CallsAreBlocks ==
    /\ dev_owner \notin dev_closed
    /\ \A t \in Threads :
          (ops[t] # <<>> /\ pc[t] \notin {"idle", "log_done"})
          => (mutex_ = t /\ dev_owner = cid[t])
    /\ (\A t \in Threads : pc[t] = "idle")
          => dev_blocks = IF ValidHandle THEN logs ELSE 0

\* both threads have logged on a valid handle and returned: two blocks
C7_Witness ==
    /\ ValidHandle
    /\ \A t \in Threads : pc[t] = "idle" /\ cid[t] # 0
    /\ logs = 2
    /\ dev_blocks = 2

\* ------------------------------------------------------------------- C8
\* what the zero-range call does when it colorizes: the whole buffer as one span
WholeShape(size) == <<"apply">> \o ShapeWrite(0, size) \o <<"restore">>

\* C8 as stated: on a console device, a record with both counts zero is
\* written as one colored span (apply, the whole buffer, restore) when
\* colorization is enabled and as one plain write with no attribute call when
\* it is disabled; either way the bytes written are the formatted buffer.
C8_ZeroRangesOnConsole ==
    \A t \in Threads :
        (/\ Leaving(t) /\ ValidHandle /\ dev_console
         /\ msg[t].num_start_ranges = 0 /\ msg[t].num_end_ranges = 0)
        => /\ IF should_do_colors_
              THEN Shape(ops[t]) = WholeShape(formatted[t])
              ELSE ops[t] = PlainWrite(t)
           /\ Written(ops[t]) = Buffer(formatted[t])

\* the same, for the calls that pass the in_console_ test of line 66
ZeroRangesWhenFlagSet ==
    \A t \in Threads :
        (/\ Leaving(t) /\ ValidHandle /\ in_console_
         /\ msg[t].num_start_ranges = 0 /\ msg[t].num_end_ranges = 0)
        => /\ IF should_do_colors_
              THEN Shape(ops[t]) = WholeShape(formatted[t])
              ELSE ops[t] = PlainWrite(t)
           /\ Written(ops[t]) = Buffer(formatted[t])

\* ------------------------------------------------------------------- C9
FailedCapture(o) == IsCapture(o) /\ o.a = 0

\* C9: after a capture that failed, white stands in for the captured
\* attributes (no color is set, and the restore that follows sets white), and
\* the call goes on: when it returns it has made one restore per capture, and
\* on well-formed ranges it has written every byte of the formatted buffer.
C9_CaptureFailureStillWrites ==
    \A t \in Threads :
        ValidHandle =>
            /\ \A j \in 1..Len(ops[t]) :
                  (FailedCapture(ops[t][j]) /\ j < Len(ops[t]))
                  => ~IsApply(ops[t][j + 1])
            /\ \A j \in 1..Len(ops[t]) :
                  (/\ IsRestore(ops[t][j])
                   /\ LastCapture(ops[t], j) # 0
                   /\ FailedCapture(ops[t][LastCapture(ops[t], j)]))
                  => ops[t][j].a = 7
            /\ (Returned(t) /\ \E j \in 1..Len(ops[t]) : FailedCapture(ops[t][j]))
                  => /\ Count(ops[t], IsRestore) = Count(ops[t], IsCapture)
                     /\ WellFormed(msg[t], formatted[t])
                           => Written(ops[t]) = Buffer(formatted[t])

\* a call on a console whose first capture failed and whose second succeeded
\* has returned, with the whole three-byte buffer written
C9_Witness ==
    \E t \in Threads :
        /\ Returned(t) /\ ValidHandle /\ dev_console
        /\ formatted[t] = 3
        /\ Count(ops[t], IsCapture) = 2
        /\ Count(ops[t], FailedCapture) = 1
        /\ FailedCapture(ops[t][1])
        /\ Written(ops[t]) = Buffer(3)

\* ------------------------------------------------------------------ C10
\* C10: after the constructor and after every set_color_mode call,
\* should_do_colors_ is true for mode always, false for mode never, and for
\* mode automatic true exactly when the handle was valid and the device an
\* interactive console at that call.
C10_ModeResolution ==
    /\ last_mode = "always" => should_do_colors_
    /\ last_mode = "never" => ~should_do_colors_
    /\ last_mode = "automatic" =>
          (should_do_colors_ <=> (out_handle_ = "handle" /\ last_console))

\* set_color_mode(automatic) was called on a valid handle that was no console
C10_Witness ==
    /\ last_site = "set_color_mode"
    /\ last_mode = "automatic"
    /\ out_handle_ = "handle" /\ ~last_console
    /\ ~should_do_colors_

\* ------------------------------------------------------------------ C11
\* the record's counts are equal, so that line 71 leaves the choice between
\* colorized and plain to should_do_colors_
EqualCounts(t) == msg[t].num_start_ranges = msg[t].num_end_ranges

\* C11 as stated: the console probe is made by the constructor and by
\* set_color_mode only, never by log: a log call on a valid handle whose mode
\* was last resolved as automatic colorizes exactly when the device was an
\* interactive console at that resolution (at construction, or at the later
\* set_color_mode(automatic) call), whatever the device is during the call.
C11_ProbeOnlyAtModeChange ==
    \A t \in Threads :
        (Leaving(t) /\ ValidHandle /\ EqualCounts(t) /\ last_mode = "automatic")
        => (Colorized(t) <=> last_console)

\* the same, for the calls that pass the in_console_ test of line 66
ProbeOnlyAtModeChangeWhenFlagSet ==
    \A t \in Threads :
        (/\ Leaving(t) /\ ValidHandle /\ EqualCounts(t) /\ last_mode = "automatic"
         /\ in_console_)
        => (Colorized(t) <=> last_console)

\* a device change goes unnoticed by the calls that pass the in_console_ test:
\* the device stopped being a console after the probe and the call colorizes
StaleProbeSeen ==
    \E t \in Threads :
        /\ Leaving(t) /\ ValidHandle /\ in_console_ /\ last_mode = "automatic"
        /\ last_console /\ ~dev_console /\ Colorized(t)

\* ------------------------------------------------------------------ C12
\* C12: no console write of a log call has a non-positive length: every
\* WriteConsoleA call of the colorize walk writes a range [a, b) with b > a,
\* whatever ranges of equal counts the formatter marked (empty ranges, ranges
\* that end before they start, a first range at 0, a last range at the end of
\* the buffer).
C12_NoEmptyWrites ==
    \A t \in Threads :
        \A j \in 1..Len(ops[t]) :
            IsConsoleWrite(ops[t][j]) => ops[t][j].b > ops[t][j].a

\* a colorized call on a three-byte buffer with the ranges [0, 0) and [2, 3):
\* the prefix, the first range and the tail are empty, and the call has made
\* two console writes, the gap [0, 2) and the range [2, 3)
C12_Witness ==
    \E t \in Threads :
        /\ Returned(t) /\ Colorized(t) /\ formatted[t] = 3
        /\ msg[t].num_start_ranges = 2 /\ msg[t].num_end_ranges = 2
        /\ msg[t].color_ranges_start[1] = 0 /\ msg[t].color_ranges_end[1] = 0
        /\ msg[t].color_ranges_start[2] = 2 /\ msg[t].color_ranges_end[2] = 3
        /\ Count(ops[t], IsRestore) = 2
        /\ Count(ops[t], IsConsoleWrite) = 2

\* ------------------------------------------------------------------ C13
\* the console writes a call makes between a capture and the restore after it
RECURSIVE ColoredSpans(_, _)
ColoredSpans(os, inside) ==
    IF os = <<>> THEN <<>>
    ELSE LET o == Head(os)
         IN  CASE IsCapture(o) -> ColoredSpans(Tail(os), TRUE)
               [] IsRestore(o) -> ColoredSpans(Tail(os), FALSE)
               [] IsConsoleWrite(o) /\ inside -> <<<<o.a, o.b>>>> \o ColoredSpans(Tail(os), inside)
               [] OTHER -> ColoredSpans(Tail(os), inside)

\* the non-empty ranges among the marks k, k + 1, ... of a formatter call
RECURSIVE MarkedSpans(_, _)
MarkedSpans(mk, k) ==
    IF k > Len(mk.starts) THEN <<>>
    ELSE ShapeWrite(mk.starts[k], mk.ends[k]) \o MarkedSpans(mk, k + 1)

\* the call holds the lock and has not yet invoked the formatter
BeforeFormat(t) == pc[t] = "log_format"
\* the formatter has run and the call has not returned to its caller
AfterFormat(t) ==
    pc[t] \in {"log_in_console", "log_colors", "plain", "prefix", "get", "set", "span",
               "restore", "gap", "unlock", "log_done"}

\* C13: on a valid handle, once a log call holds the lock and before it
\* invokes the formatter, both counts of the record are zero (and both arrays
\* zeroed), whatever ranges the record carried into the call; after the
\* formatter has run the record's ranges are exactly the marks the formatter
\* put in during this call; and the spans the call colors are exactly the
\* formatter's non-empty ranges (the whole buffer when it marked none, no span
\* when the call writes plain).
C13_StaleRangesCleared ==
    \A t \in Threads :
        ValidHandle =>
            /\ BeforeFormat(t) =>
                  /\ mutex_ = t
                  /\ msg[t].num_start_ranges = 0 /\ msg[t].num_end_ranges = 0
                  /\ msg[t].color_ranges_start = ZeroRanges
                  /\ msg[t].color_ranges_end = ZeroRanges
            /\ AfterFormat(t) => MarksOf(msg[t]) = marked[t]
            /\ Leaving(t) =>
                  ColoredSpans(ops[t], FALSE) =
                      IF ~Colorized(t) THEN <<>>
                      ELSE IF marked[t].starts = <<>> THEN ShapeWrite(0, formatted[t])
                      ELSE MarkedSpans(marked[t], 1)

\* a call holds the lock on a record that carried the range [1, 2) of an
\* earlier call: the record is cleared and the formatter not yet invoked
C13_Witness ==
    \E t \in Threads :
        /\ BeforeFormat(t) /\ ValidHandle /\ mutex_ = t
        /\ marked[t] = [starts |-> <<1>>, ends |-> <<2>>]
        /\ msg[t].num_start_ranges = 0 /\ msg[t].num_end_ranges = 0

\* calls on a reused record color what the formatter marked: the record came
\* in with a range, the formatter marked [0, 1) and [2, 3), two spans colored
ReusedRecordColored ==
    \E t \in Threads :
        /\ Leaving(t) /\ ValidHandle /\ Colorized(t)
        /\ marked[t] = [starts |-> <<0, 2>>, ends |-> <<1, 3>>]
        /\ ColoredSpans(ops[t], FALSE) = <<<<0, 1>>, <<2, 3>>>>

\* ------------------------------------------------------------------ C14
\* a thread is in flush, called directly or by the destructor
InFlush(t) == pc[t] \in {"flush", "dtor"}

\* C14: flush is a no-op, in any state: the step that enters flush and the
\* step that runs its body, whether called directly or by the destructor,
\* make no device call (the device's call sequence, every call's history and
\* the device's attributes stay as they are), leave the mutex as it is, and
\* leave colors_, formatter_, should_do_colors_, in_console_ and out_handle_
\* unchanged; a thread in flush never holds the mutex.
C14_FlushIsNoOp ==
    /\ [](\A t \in Threads : (InFlush(t) \/ pc[t] = "destroyed") => mutex_ # t)
    /\ [][\A t \in Threads :
            ((InFlush(t) \/ InFlush(t)') /\ pc'[t] # pc[t])
            => /\ ops' = ops
               /\ dev_blocks' = dev_blocks /\ dev_owner' = dev_owner
               /\ dev_closed' = dev_closed
               /\ dev_attr' = dev_attr /\ dev_console' = dev_console
               /\ mutex_' = mutex_
               /\ colors_' = colors_ /\ formatter_' = formatter_
               /\ should_do_colors_' = should_do_colors_
               /\ in_console_' = in_console_ /\ out_handle_' = out_handle_]_vars

\* a thread is in flush while the other holds the mutex in the middle of a
\* colored span, the level's color applied to the console
C14_Witness ==
    \E t \in Threads : \E u \in Threads \ {t} :
        /\ pc[t] = "flush"
        /\ mutex_ = u /\ pc[u] = "restore"
        /\ dev_console /\ dev_attr # ambient

\* the sink was destroyed after its log calls: one block of device calls for
\* each log call, none for the destructor
DestroyedAfterLogs ==
    /\ \E t \in Threads : pc[t] = "destroyed"
    /\ ValidHandle /\ logs = MaxCalls /\ dev_blocks = MaxCalls

\* ------------------------------------------------------------------ C15
\* where a call holds the mutex: log from its lock_guard to its return, a
\* setter from its lock_guard to its return
LockedRegion ==
    {"log_format", "log_in_console", "log_colors", "plain", "prefix", "get", "set",
     "span", "restore", "gap", "unlock",
     "set_color", "set_pattern", "set_formatter", "set_color_mode"}

\* C15: the mutex is held by a thread exactly while that thread is between
\* the lock_guard and the return of a log or setter call, so never by a call
\* that has returned, whichever path the call took (invalid handle, the plain
\* write of a non-console device or of the fallback, the colorize walk); and
\* under fair scheduling every call that has started, by any of the threads
\* calling concurrently, returns to its caller.
C15_CallsComplete ==
    /\ [](\A t \in Threads : mutex_ = t <=> pc[t] \in LockedRegion)
    /\ [](mutex_ \in Threads \cup {NoThread})
    /\ \A t \in Threads : (pc[t] # "idle") ~> (pc[t] = "idle")

\* every call has been made, a plain write among them, every caller is back
\* and the mutex is free
C15_Witness ==
    /\ calls = FairCalls /\ logs >= 1
    /\ \A t \in Threads : pc[t] = "idle" /\ cid[t] # 0
    /\ mutex_ = NoThread
    /\ ValidHandle /\ ~in_console_ /\ dev_blocks = logs

\* ------------------------------------------------------------------ C16
\* where a log call holds the mutex, and where a setter runs its body
LogRegion ==
    {"log_format", "log_in_console", "log_colors", "plain", "prefix", "get", "set",
     "span", "restore", "gap", "unlock"}
SetterRegion == {"set_color", "set_pattern", "set_formatter", "set_color_mode"}

\* C16: colors_, formatter_ and should_do_colors_ change only in a step of a
\* setter that holds the mutex, while no log call is between its lock_guard
\* and its return; so for a log call that holds the mutex every color it has
\* applied is the table's present color of the record's level (put over the
\* attributes captured just before), and when it has passed the tests of
\* lines 66 and 71 on equal counts it has colorized exactly when
\* should_do_colors_ is set.
C16_SettersOnlyUnderLock ==
    /\ [][(colors_' # colors_ \/ formatter_' # formatter_
              \/ should_do_colors_' # should_do_colors_)
          => \E t \in Threads :
                /\ mutex_ = t /\ pc[t] \in SetterRegion /\ pc'[t] = "idle"
                /\ \A u \in Threads \ {t} : pc[u] \notin LogRegion]_vars
    /\ [](\A t \in Threads :
            pc[t] \in LogRegion =>
                \A j \in 1..Len(ops[t]) :
                    IsApply(ops[t][j]) =>
                        /\ j > 1 /\ IsCapture(ops[t][j - 1])
                        /\ ops[t][j].a =
                              BitOr(colors_[msg[t].level],
                                    BitAnd(ops[t][j - 1].b, KEEP_MASK)))
    /\ [](\A t \in Threads :
            (Leaving(t) /\ in_console_ /\ EqualCounts(t))
            => (Colorized(t) <=> should_do_colors_))

\* a log call has applied its level's color twice and is in its second
\* colored span, while the other thread has called a setter and waits for
\* the mutex
C16_Witness ==
    \E t \in Threads : \E u \in Threads \ {t} :
        /\ pc[t] = "restore" /\ mutex_ = t
        /\ Count(ops[t], IsApply) = 2
        /\ pc[u] = "setter_lock"

\* a set_color call made before a log call shows in the color it applies
SetColorTakesEffect ==
    \E t \in Threads :
        /\ Leaving(t) /\ dev_console /\ colors_["info"] = 44 /\ msg[t].level = "info"
        /\ \E j \in 1..Len(ops[t]) : IsApply(ops[t][j]) /\ ops[t][j].a = 44

\* ------------------------------------------------------------------ C17
\* a capture that succeeded
GoodCapture(o) == IsCapture(o) /\ o.a = 1

\* C17 as stated: with the threads logging concurrently on one console, the
\* attributes a log call captures as the original state are the ambient
\* state, never a color another call has applied; equivalently, whenever the
\* mutex is free the device's text attributes equal the ambient state.
C17_AmbientWhenFree ==
    /\ \A t \in Threads :
          \A j \in 1..Len(ops[t]) : GoodCapture(ops[t][j]) => ops[t][j].b = ambient
    /\ mutex_ = NoThread => dev_attr = ambient

\* C17 amended: the attributes a log call captures are never a color that a
\* call has applied and not yet restored: they are the ambient state, or the
\* white that a restore after a failed capture has set; whenever the mutex is
\* free no apply is outstanding: every call has made a restore for each of
\* its captures, and the device's text attributes are the ambient state or
\* that white.
C17_NoOutstandingApply ==
    /\ \A t \in Threads :
          \A j \in 1..Len(ops[t]) :
              GoodCapture(ops[t][j]) => ops[t][j].b \in {ambient, 7}
    /\ mutex_ = NoThread =>
          /\ dev_attr \in {ambient, 7}
          /\ \A t \in Threads : Count(ops[t], IsRestore) = Count(ops[t], IsCapture)

\* both threads have logged on a console whose ambient attributes are not
\* white, each has applied its color once and restored, the mutex is free
C17_Witness ==
    /\ mutex_ = NoThread /\ ValidHandle /\ dev_console
    /\ ambient = 30 /\ dev_attr = 30
    /\ \A t \in Threads :
          /\ Returned(t)
          /\ Count(ops[t], IsApply) = 1 /\ Count(ops[t], IsRestore) = 1
          /\ \E j \in 1..Len(ops[t]) : GoodCapture(ops[t][j]) /\ ops[t][j].b = 30

\* ------------------------------------------------------------------ C18
\* the bits of an attribute word outside the lowest four
HighBits(w) == BitAnd(w, KEEP_MASK)

\* C18 as stated: the attribute word a log call sets for a colored span agrees
\* with the word it captured just before on every bit outside the lowest
\* four, for every captured word and every color of the table.
C18_ForegroundBitsOnly ==
    \A t \in Threads :
        \A j \in 2..Len(ops[t]) :
            IsApply(ops[t][j]) => HighBits(ops[t][j].a) = HighBits(ops[t][j - 1].b)

\* what the code keeps: every bit outside the lowest four that is set in the
\* captured word is set in the applied word, and the two words agree on all
\* those bits when the level's color has none of them
HighBitsKept ==
    \A t \in Threads :
        pc[t] \in LogRegion =>
            \A j \in 2..Len(ops[t]) :
                IsApply(ops[t][j]) =>
                    /\ BitAnd(HighBits(ops[t][j].a), HighBits(ops[t][j - 1].b))
                          = HighBits(ops[t][j - 1].b)
                    /\ HighBits(colors_[msg[t].level]) = 0
                          => HighBits(ops[t][j].a) = HighBits(ops[t][j - 1].b)

====
